---- MODULE Spec2Model ----
(***************************************************************************)
(* Model of rss_watcher.py: the poll loop (startup reconciliation, then    *)
(* fetch_new cycles separated by sleeps), the seen-store with its prune,   *)
(* the filter chain and the notifier.                                      *)
(*                                                                         *)
(* A feed entry is a record of the fields the code reads, after            *)
(* entry_field's defaults: an absent field is "".  The regular-expression  *)
(* searches over title and description are the entry's booleans            *)
(* titleMatch, hasSubs and hasAudio.                                       *)
(*                                                                         *)
(* The seen-store is a Python dict, which keeps insertion order: a         *)
(* sequence of blocks [k, ts, n].  A block with n = 1 is one key k; a      *)
(* block with n > 1 stands for n distinct keys of the state file that no   *)
(* entry of the feed has, adjacent in the file and with the same           *)
(* timestamp.                                                              *)
(***************************************************************************)
EXTENDS Integers, Sequences, FiniteSets, TLC

\* ------------------------------------------------------------ bounds
MaxFeed == 2        \* entries in one feed document
MaxBackfill == 1    \* largest BACKFILL_N tried
MaxCycle == 2       \* steady-state cycles of one run
MaxNotified == 2    \* the per-entry notification counter saturates here
MaxClock == 26      \* LongSpec: no cycle starts with the clock beyond this

\* ------------------------------------------------- program constants
MAX_ITEMS == 80
PruneCeiling == 2000
PruneKeep == 1200

\* ------------------------------------------------------------ entries
eA == [id |-> "gA", infohash |-> "hA", title |-> "tA", published |-> "d1",
       seeders |-> "5", trusted |-> "Yes", remake |-> "No",
       titleMatch |-> TRUE, hasSubs |-> FALSE, hasAudio |-> TRUE]
eB == [id |-> "gB", infohash |-> "hB", title |-> "tB", published |-> "d2",
       seeders |-> "0", trusted |-> "No", remake |-> "Yes",
       titleMatch |-> FALSE, hasSubs |-> FALSE, hasAudio |-> FALSE]
eC == [id |-> "", infohash |-> "", title |-> "tC", published |-> "d3",
       seeders |-> "", trusted |-> "", remake |-> "",
       titleMatch |-> TRUE, hasSubs |-> TRUE, hasAudio |-> FALSE]
eD == [id |-> "gD", infohash |-> "hD", title |-> "tD", published |-> "d4",
       seeders |-> "x", trusted |-> "Yes", remake |-> "No",
       titleMatch |-> TRUE, hasSubs |-> TRUE, hasAudio |-> TRUE]
Universe == {eA, eB, eC, eD}
\* an entry from which nothing can be read; the feeds of KeylessSpec list it
eE == [id |-> "", infohash |-> "", title |-> "", published |-> "",
       seeders |-> "", trusted |-> "", remake |-> "",
       titleMatch |-> FALSE, hasSubs |-> FALSE, hasAudio |-> FALSE]

\* the publish time the published string stands for (0: none)
PubTime(e) ==
  CASE e.published = "d1" -> 1
    [] e.published = "d2" -> 2
    [] e.published = "d3" -> 3
    [] e.published = "d4" -> 4
    [] OTHER -> 0

Range(s) == {s[i] : i \in 1..Len(s)}
Min(a, b) == IF a < b THEN a ELSE b
IsInjective(s) == \A i, j \in 1..Len(s) : s[i] = s[j] => i = j
SeqsUpTo(S, n) == UNION {[1..m -> S] : m \in 0..n}
\* the feed documents: up to MaxFeed entries, no entry twice, in any order
Feeds == {f \in SeqsUpTo(Universe, MaxFeed) : IsInjective(f)}

Take(s, n) == SubSeq(s, 1, Min(n, Len(s)))
LastN(s, n) == SubSeq(s, Len(s) - Min(n, Len(s)) + 1, Len(s))
Reverse(s) == [i \in 1..Len(s) |-> s[Len(s) + 1 - i]]

\* ------------------------------------------------------------ key_for
key_for(e) ==
  IF e.id # "" THEN e.id
  ELSE IF e.infohash # "" THEN e.infohash
  ELSE e.title \o "|" \o e.published

\* ----------------------------------------------------- passes_filters
\* int(entry_field(e, "nyaa_seeders", "0") or 0); -1 stands for ValueError
SeedersInt(e) ==
  CASE e.seeders = "" -> 0
    [] e.seeders = "0" -> 0
    [] e.seeders = "1" -> 1
    [] e.seeders = "4" -> 4
    [] e.seeders = "5" -> 5
    [] OTHER -> -1

\* the filter evaluation raises: int() of a non-numeric seeders text, which
\* is reached only when the trust and remake checks did not return first
FiltersRaise(c, e) ==
  /\ ~(c.ONLY_TRUSTED /\ e.trusted # "Yes")
  /\ ~(c.SKIP_REMAKES /\ e.remake = "Yes")
  /\ SeedersInt(e) = -1

passes_filters(c, e) ==
  IF c.ONLY_TRUSTED /\ e.trusted # "Yes" THEN FALSE
  ELSE IF c.SKIP_REMAKES /\ e.remake = "Yes" THEN FALSE
  ELSE IF SeedersInt(e) < c.MIN_SEEDERS THEN FALSE
  ELSE IF c.TITLE_REGEX /\ ~e.titleMatch THEN FALSE
  ELSE IF c.REQUIRE_MULTI_SUBS /\ ~e.hasSubs THEN FALSE
  ELSE IF c.REQUIRE_MULTI_AUDIO /\ ~e.hasAudio THEN FALSE
  ELSE IF c.REQUIRE_ANY_MULTI /\ ~(e.hasSubs \/ e.hasAudio) THEN FALSE
  ELSE TRUE

\* -------------------------------------------------------------- notify
\* a notify without the infohash check of lines 128-130
NotifySendsAlways(e) == TRUE
\* notify calls bot.send_message only for an entry with an infohash
NotifySends(e) == e.infohash # ""

\* ---------------------------------------------------------- seen-store
EmptyDict == [kind |-> "dict", items |-> <<>>]

RECURSIVE SumN(_)
SumN(bs) == IF bs = <<>> THEN 0 ELSE bs[1].n + SumN(Tail(bs))
\* len(seen)
Size(s) == IF s.kind = "scalar" THEN 0 ELSE SumN(s.items)
Keys(s) == {s.items[i].k : i \in 1..Len(s.items)} \ {"filler"}
\* k in seen
Has(s, k) == s.kind = "dict" /\ k \in Keys(s)

\* a fetch_new that forgets to mark the entry seen
RecordDropped(s, k, t) == s
\* seen[k] = t, for a dict without k
Record(s, k, t) == [s EXCEPT !.items = Append(@, [k |-> k, ts |-> t, n |-> 1])]

\* sorted(seen.items(), key=lambda kv: kv[1], reverse=True): stable
RECURSIVE InsertDesc(_, _)
InsertDesc(b, bs) ==
  IF bs = <<>> THEN <<b>>
  ELSE IF bs[1].ts >= b.ts THEN <<bs[1]>> \o InsertDesc(b, Tail(bs))
  ELSE <<b>> \o bs
RECURSIVE SortDesc(_)
SortDesc(bs) ==
  IF bs = <<>> THEN <<>>
  ELSE InsertDesc(bs[Len(bs)], SortDesc(SubSeq(bs, 1, Len(bs) - 1)))
\* [:n] of a sequence of blocks
RECURSIVE TakeN(_, _)
TakeN(bs, n) ==
  IF bs = <<>> \/ n = 0 THEN <<>>
  ELSE IF bs[1].n <= n THEN <<bs[1]>> \o TakeN(Tail(bs), n - bs[1].n)
  ELSE <<[bs[1] EXCEPT !.n = n]>>

\* a prune whose sort lacks reverse=True: it keeps the oldest
PruneAscending(s) ==
  IF Size(s) > PruneCeiling
  THEN [s EXCEPT !.items = TakeN(Reverse(SortDesc(@)), PruneKeep)]
  ELSE s
\* a prune that cuts the store down to the ceiling
PruneToCeiling(s) ==
  IF Size(s) > PruneCeiling
  THEN [s EXCEPT !.items = TakeN(SortDesc(@), PruneCeiling)]
  ELSE s
\* the prune at the end of fetch_new, for a dict
Prune(s) ==
  IF Size(s) > PruneCeiling
  THEN [s EXCEPT !.items = TakeN(SortDesc(@), PruneKeep)]
  ELSE s

\* ------------------------------------------------------- configuration
\* the environment variables read at import; fixed for the run
NoFilters == [ONLY_TRUSTED |-> FALSE, SKIP_REMAKES |-> FALSE, MIN_SEEDERS |-> 0,
              TITLE_REGEX |-> FALSE, REQUIRE_MULTI_SUBS |-> FALSE,
              REQUIRE_MULTI_AUDIO |-> FALSE, REQUIRE_ANY_MULTI |-> FALSE]
FilterConfigs == {NoFilters, [NoFilters EXCEPT !.MIN_SEEDERS = 1]}
Configs == {[BACKFILL_N |-> n, CLEAR_SEEN |-> c, filters |-> f] :
              n \in 0..MaxBackfill, c \in BOOLEAN, f \in FilterConfigs}

\* ---------------------------------------------------------- state file
\* the content of SEEN_FILE: kind "none" is a missing or unreadable file or
\* one that is not JSON; otherwise the JSON value, an object (dict), an
\* array (list) or a scalar (null, a number, a boolean)
NoFile == [kind |-> "none", items |-> <<>>]
FillerFile(n) == [kind |-> "dict", items |-> <<[k |-> "filler", ts |-> 1, n |-> n]>>]
StateFiles ==
  { NoFile,
    [kind |-> "dict", items |-> <<[k |-> "gA", ts |-> 2, n |-> 1]>>],
    FillerFile(PruneCeiling - 1),
    FillerFile(PruneCeiling),
    [kind |-> "list", items |-> <<[k |-> "filler", ts |-> 1, n |-> PruneCeiling + 1]>>],
    [kind |-> "scalar", items |-> <<>>] }

\* with CLEAR_SEEN every object is emptied alike: one object, the array and
\* the scalar stand for the state files of such a run
ClearedFiles == {f \in StateFiles : f.kind \in {"scalar", "list"} \/ Keys(f) # {}}

load_seen(f) == IF f.kind = "none" THEN EmptyDict ELSE f
\* save_seen: the file holds the data, or the write raised and was
\* swallowed (lines 67-68) and the file is as it was
save_seen(f, data, ok) == IF ok THEN data ELSE f

VARIABLES
  cfg,        \* the configuration
  file,       \* the content of SEEN_FILE
  seen,       \* poll_loop's seen
  clock,      \* the next value of time.time()
  pc,         \* where poll_loop is
  fetchOk,    \* whether the last fetch_entries got it
  entries,    \* what the last fetch_entries returned
  todo,       \* the entries the running for loop has still to visit
  new_count,  \* fetch_new's new_count, the backfill's enviados
  cyc,        \* 0 during startup, then the number of the cycle (saturating)
  startFile,  \* history: the content of SEEN_FILE when the process started
  startFeed,  \* history: the feed document at the startup fetch
  startOk,    \* history: whether the startup fetch got it
  tried,      \* history: entries whose message send was attempted this cycle
  failed,     \* history: entries whose message send failed this cycle
  notified,   \* history: messages sent per entry over the run (saturating)
  replay,     \* history: this cycle fetched what the previous cycle fetched,
              \*          and every send of the previous cycle succeeded
  owed,       \* history: entries whose send failed in an earlier steady-state
              \*          cycle and has not succeeded since
  saved,      \* history: save_seen was called since the last fetch_entries
  web         \* the web server: TEST_SECRET and its last response

vars == <<cfg, file, seen, clock, pc, fetchOk, entries, todo, new_count,
          cyc, startFile, startFeed, startOk, tried, failed, notified, replay, owed,
          saved, web>>

\* what the web server leaves alone: the poll loop's state
pollVars == <<cfg, file, seen, clock, pc, fetchOk, entries, todo, new_count,
              cyc, startFile, startFeed, startOk, tried, failed, notified,
              replay, owed, saved>>

\* the web server before its first request; TEST_SECRET is read at import
WebConfigs == {[TEST_SECRET |-> t, resp |-> "none"] : t \in {"", "s"}}
NoSecret == [TEST_SECRET |-> "", resp |-> "none"]

\* the poll loop's state when poll_loop is entered
PollInit ==
  /\ cfg \in Configs
  /\ file \in IF cfg.CLEAR_SEEN THEN ClearedFiles ELSE StateFiles
  /\ seen = EmptyDict
  /\ clock = 3
  /\ pc = "start"
  /\ fetchOk = FALSE
  /\ entries = <<>>
  /\ todo = <<>>
  /\ new_count = 0
  /\ cyc = 0
  /\ startFile = file
  /\ startFeed = <<>>
  /\ startOk = FALSE
  /\ tried = <<>>
  /\ failed = {}
  /\ notified = [e \in Universe |-> 0]
  /\ replay = FALSE
  /\ owed = {}
  /\ saved = FALSE

Init == PollInit /\ web = NoSecret

\* fetch_entries: the document cut to MAX_ITEMS, or [] on any error
fetch_entries(f, ok) == IF ok THEN Take(f, MAX_ITEMS) ELSE <<>>

\* poll_loop, lines 210-215
LoadSeen ==
  /\ pc = "start"
  /\ LET s == load_seen(file) IN
     IF ~cfg.CLEAR_SEEN
     THEN /\ seen' = s
          /\ pc' = "init"
          /\ UNCHANGED <<file, saved>>
     ELSE IF s.kind = "scalar"
     THEN \* seen.clear() raises AttributeError, outside any try
          /\ seen' = s
          /\ pc' = "crashed"
          /\ UNCHANGED <<file, saved>>
     ELSE /\ seen' = [s EXCEPT !.items = <<>>]
          /\ \E w \in BOOLEAN : file' = save_seen(file, seen', w)
          /\ saved' = TRUE
          /\ pc' = "init"
  /\ UNCHANGED <<cfg, clock, fetchOk, entries, todo, new_count, cyc,
                 startFile, startFeed, startOk, tried, failed, notified, replay, owed, web>>

\* the startup baseline, lines 236-238: seen.setdefault(k, time.time()) for
\* every entry with a key; time.time() is read at every call
RECURSIVE Baseline(_, _, _)
Baseline(s, es, t) ==
  IF es = <<>> THEN s
  ELSE LET k == key_for(es[1]) IN
       IF k = "" THEN Baseline(s, Tail(es), t)
       ELSE Baseline(IF Has(s, k) THEN s ELSE Record(s, k, t), Tail(es), t + 1)
Keyed(es) == {i \in 1..Len(es) : key_for(es[i]) # ""}

\* the entries the backfill visits, line 223
BackfillSlice(es, n) == LastN(es, n)
\* the order in which fetch_new visits the entries, line 191
CycleOrder(es) == Reverse(es)

\* where poll_loop goes on when the startup scan raises, lines 240-241
InitExceptPc == "loop"
\* a loop without the try of lines 244-250
CycleExceptUncaught == "crashed"
\* where poll_loop goes on when a cycle raises, lines 249-251
CycleExceptPc == "sleep"

Bump(n, max) == IF n < max THEN n + 1 ELSE n

\* poll_loop, lines 218-241, up to the first await of the backfill; docs are
\* the documents the feed may hold
StartupScan(docs) ==
  /\ pc = "init"
  /\ \E f \in docs, ok \in BOOLEAN :
       LET es == fetch_entries(f, ok) IN
       /\ fetchOk' = ok
       /\ startFeed' = f
       /\ startOk' = ok
       /\ entries' = es
       /\ IF cfg.BACKFILL_N > 0
          THEN /\ todo' = BackfillSlice(es, cfg.BACKFILL_N)
               /\ pc' = "backfill"
               /\ saved' = FALSE
               /\ UNCHANGED <<seen, clock, file>>
          ELSE IF seen.kind = "dict"
          THEN /\ seen' = Baseline(seen, es, clock)
               /\ clock' = clock + Cardinality(Keyed(es))
               /\ \E w \in BOOLEAN : file' = save_seen(file, seen', w)
               /\ saved' = TRUE
               /\ pc' = "loop"
               /\ UNCHANGED todo
          ELSE IF Keyed(es) # {}
          THEN \* setdefault raises AttributeError: "Init scan error"
               /\ pc' = InitExceptPc
               /\ saved' = FALSE
               /\ UNCHANGED <<seen, clock, file, todo>>
          ELSE /\ \E w \in BOOLEAN : file' = save_seen(file, seen, w)
               /\ saved' = TRUE
               /\ pc' = "loop"
               /\ UNCHANGED <<seen, clock, todo>>
  /\ UNCHANGED <<cfg, new_count, cyc, startFile, tried, failed, notified, replay, owed, web>>

StartupFetch == StartupScan(Feeds)

\* what the loop body does with entry e: lines 192-194 and 224-226
EntryStep(e) ==
  LET k == key_for(e) IN
  IF k = "" THEN "skip"
  ELSE IF seen.kind = "scalar" THEN "raise"    \* k in seen: TypeError
  ELSE IF Has(seen, k) THEN "skip"
  ELSE IF FiltersRaise(cfg.filters, e) THEN "raise"
  ELSE IF ~passes_filters(cfg.filters, e) THEN "skip"
  ELSE "notify"

\* one pass of the loop body, lines 192-200 and 224-232
ProcessEntry(where, onRaise) ==
  /\ pc = where
  /\ todo # <<>>
  /\ LET e == Head(todo)
         st == EntryStep(e) IN
     \/ /\ st = "skip"
        /\ todo' = Tail(todo)
        /\ UNCHANGED <<pc, seen, clock, new_count, tried, failed, notified>>
     \/ /\ st = "raise"
        /\ pc' = onRaise
        /\ todo' = <<>>
        /\ UNCHANGED <<seen, clock, new_count, tried, failed, notified>>
     \/ /\ st = "notify"
        /\ ~NotifySends(e)        \* notify returns without a send
        /\ todo' = Tail(todo)
        /\ IF seen.kind = "dict"
           THEN /\ seen' = Record(seen, key_for(e), clock)
                /\ clock' = clock + 1
                /\ new_count' = new_count + 1
           ELSE UNCHANGED <<seen, clock, new_count>>
        /\ UNCHANGED <<pc, tried, failed, notified>>
     \/ /\ st = "notify"
        /\ NotifySends(e)
        /\ todo' = Tail(todo)
        /\ tried' = Append(tried, e)
        /\ \E ok \in BOOLEAN :
             IF ok
             THEN /\ notified' = [notified EXCEPT ![e] = Bump(@, MaxNotified)]
                  /\ IF seen.kind = "dict"
                     THEN /\ seen' = Record(seen, key_for(e), clock)
                          /\ clock' = clock + 1
                          /\ new_count' = new_count + 1
                     ELSE \* seen[k] = ... raises TypeError, caught at 199/231
                          UNCHANGED <<seen, clock, new_count>>
                  /\ UNCHANGED failed
             ELSE /\ failed' = failed \cup {e}
                  /\ UNCHANGED <<seen, clock, new_count, notified>>
        /\ UNCHANGED pc
  /\ UNCHANGED <<cfg, file, fetchOk, entries, cyc, startFile, startFeed, startOk,
                 replay, owed, saved, web>>

BackfillEntry == ProcessEntry("backfill", InitExceptPc)

\* poll_loop, lines 233-234
BackfillDone ==
  /\ pc = "backfill"
  /\ todo = <<>>
  /\ \E w \in BOOLEAN : file' = save_seen(file, seen, w)
  /\ saved' = TRUE
  /\ pc' = "loop"
  /\ UNCHANGED <<cfg, seen, clock, fetchOk, entries, todo, new_count, cyc,
                 startFile, startFeed, startOk, tried, failed, notified, replay, owed, web>>

\* fetch_new, lines 189-190; docs are the documents the feed may hold, next
\* is the number of the cycle that starts
FetchNewStart(docs, next) ==
  /\ pc = "loop"
  /\ \E ok \in BOOLEAN :
       \E f \in IF ok THEN docs ELSE {<<>>} :
         /\ fetchOk' = ok
         /\ entries' = fetch_entries(f, ok)
         /\ todo' = CycleOrder(entries')
         /\ replay' = (cyc >= 1 /\ fetchOk /\ ok /\ entries' = entries /\ failed = {})
  /\ new_count' = 0
  /\ cyc' = next
  /\ tried' = <<>>
  /\ failed' = {}
  /\ owed' = (owed \ Range(tried)) \cup (IF cyc >= 1 THEN failed ELSE {})
  /\ saved' = FALSE
  /\ pc' = "cycle"
  /\ UNCHANGED <<cfg, file, seen, clock, startFile, startFeed, startOk, notified, web>>

\* the first MaxCycle cycles of a run
CycleFetch == cyc < MaxCycle /\ FetchNewStart(Feeds, cyc + 1)

CycleEntry == ProcessEntry("cycle", CycleExceptPc)

\* fetch_new, lines 201-204, and poll_loop, lines 246-248
CycleDone ==
  /\ pc = "cycle"
  /\ todo = <<>>
  /\ IF seen.kind = "scalar" \/ (seen.kind = "list" /\ Size(seen) > PruneCeiling)
     THEN \* len(seen) raises TypeError, seen.items() AttributeError
          /\ pc' = CycleExceptPc
          /\ UNCHANGED <<seen, file, saved>>
     ELSE /\ seen' = IF seen.kind = "dict" THEN Prune(seen) ELSE seen
          /\ IF new_count # 0
             THEN /\ \E w \in BOOLEAN : file' = save_seen(file, seen', w)
                  /\ saved' = TRUE
             ELSE UNCHANGED <<file, saved>>
          /\ pc' = "sleep"
  /\ UNCHANGED <<cfg, clock, fetchOk, entries, todo, new_count, cyc,
                 startFile, startFeed, startOk, tried, failed, notified, replay, owed, web>>

\* poll_loop, line 251
Sleep ==
  /\ pc = "sleep"
  /\ pc' = "loop"
  /\ UNCHANGED <<cfg, file, seen, clock, fetchOk, entries, todo, new_count,
                 cyc, startFile, startFeed, startOk, tried, failed, notified, replay, owed,
                 saved, web>>

Next ==
  \/ LoadSeen
  \/ StartupFetch
  \/ BackfillEntry
  \/ BackfillDone
  \/ CycleFetch
  \/ CycleEntry
  \/ CycleDone
  \/ Sleep

Spec == Init /\ [][Next]_vars

\* The loop without an end: cycles without a limit (the cycle counter stays
\* at MaxCycle), over a few configurations and state files and the feed
\* documents of at most one entry (the entry on which the filters raise
\* among them).
\* Every await of poll_loop returns (the fetch and the send have timeouts,
\* the sleep ends), so the loop keeps taking steps.
LiveFeeds == {f \in Feeds : Len(f) <= 1}
LiveInit ==
  /\ Init
  /\ ~cfg.CLEAR_SEEN
  /\ cfg.filters = NoFilters
  /\ file.kind \in {"none", "scalar"}
LiveStartupFetch == StartupScan(LiveFeeds)
LiveCycleFetch == FetchNewStart(LiveFeeds, Bump(cyc, MaxCycle))
LiveNext ==
  \/ LoadSeen
  \/ LiveStartupFetch
  \/ BackfillEntry
  \/ BackfillDone
  \/ LiveCycleFetch
  \/ CycleEntry
  \/ CycleDone
  \/ Sleep
LiveSpec == LiveInit /\ [][LiveNext]_vars /\ WF_vars(LiveNext)

\* The web server beside the poll loop: start_web runs before poll_loop, and
\* a request handler runs whenever poll_loop is at an await, that is between
\* any two steps of the loop, until poll_loop ends.
\* health, line 254
Health ==
  /\ pc # "crashed"
  /\ web' = [web EXCEPT !.resp = "200 ok"]
  /\ UNCHANGED pollVars
\* what test_handler answers to a request with query parameter k (""
\* when absent) when its send_message succeeds (ok) or raises
TestResponse(k, ok) ==
  IF web.TEST_SECRET = "" THEN "400 No TEST_SECRET set"
  ELSE IF k # web.TEST_SECRET THEN "403 forbidden"
  ELSE IF ok THEN "200 sent"
  ELSE "500 send error"
\* a test_handler that resets the history it is testing against
TestRequestClearing ==
  /\ pc \notin {"start", "crashed"}
  /\ \E k \in {"", "s", "bad"}, ok \in BOOLEAN :
       web' = [web EXCEPT !.resp = TestResponse(k, ok)]
  /\ seen' = [seen EXCEPT !.items = <<>>]
  /\ UNCHANGED <<cfg, file, clock, pc, fetchOk, entries, todo, new_count,
                 cyc, startFile, startFeed, startOk, tried, failed, notified,
                 replay, owed, saved>>
\* test_handler, lines 256-270
TestRequest ==
  /\ pc # "crashed"
  /\ \E k \in {"", "s", "bad"}, ok \in BOOLEAN :
       web' = [web EXCEPT !.resp = TestResponse(k, ok)]
  /\ UNCHANGED pollVars

\* from an absent state file or one that holds an object, without
\* CLEAR_SEEN and without filters
WebInit ==
  /\ PollInit
  /\ web \in WebConfigs
  /\ ~cfg.CLEAR_SEEN
  /\ cfg.filters = NoFilters
  /\ file.kind = "none" \/ Keys(file) # {}
WebCycleFetch == cyc < MaxCycle /\ FetchNewStart(LiveFeeds, cyc + 1)
WebNext ==
  \/ LoadSeen
  \/ LiveStartupFetch
  \/ BackfillEntry
  \/ BackfillDone
  \/ WebCycleFetch
  \/ CycleEntry
  \/ CycleDone
  \/ Sleep
  \/ Health
  \/ TestRequest
WebSpec == WebInit /\ [][WebNext]_vars

\* The poll loop over feeds that list eE, from an absent state file or one
\* that holds an object, without CLEAR_SEEN and without filters.
KeylessFeeds == {f \in SeqsUpTo({eA, eE}, MaxFeed) : IsInjective(f)}
KeylessInit ==
  /\ Init
  /\ ~cfg.CLEAR_SEEN
  /\ cfg.filters = NoFilters
  /\ file.kind = "none" \/ Keys(file) # {}
KeylessStartupFetch == StartupScan(KeylessFeeds)
KeylessCycleFetch == cyc < MaxCycle /\ FetchNewStart(KeylessFeeds, cyc + 1)
KeylessNext ==
  \/ LoadSeen
  \/ KeylessStartupFetch
  \/ BackfillEntry
  \/ BackfillDone
  \/ KeylessCycleFetch
  \/ CycleEntry
  \/ CycleDone
  \/ Sleep
KeylessSpec == KeylessInit /\ [][KeylessNext]_vars

\* A long run, with cycles without a limit until the clock passes MaxClock:
\* eA comes and stays in the feed while other entries pass through it.
\* eNew in a document stands for MAX_ITEMS - 1 entries that no earlier
\* document listed, each with an id and an infohash; with eA they fill the
\* document up to the cut of line 175.
eNew == [id |-> "new", infohash |-> "hN", title |-> "tN", published |-> "d5",
         seeders |-> "5", trusted |-> "Yes", remake |-> "No",
         titleMatch |-> TRUE, hasSubs |-> FALSE, hasAudio |-> FALSE]
LongFeeds == {<<>>, <<eA>>, <<eA, eNew>>}
LongInit ==
  /\ Init
  /\ cfg.BACKFILL_N = 0
  /\ ~cfg.CLEAR_SEEN
  /\ cfg.filters = NoFilters
  /\ file \in {NoFile, FillerFile(PruneCeiling)}
LongStartupFetch == StartupScan({<<>>, <<eA>>})
LongCycleFetch ==
  clock <= MaxClock /\ FetchNewStart(LongFeeds, Bump(cyc, MaxCycle))
LongCycleEntry == todo # <<>> /\ Head(todo) # eNew /\ CycleEntry
\* lines 192-198 for each of the entries eNew stands for, in one step: none
\* is in the store, the filters accept each, every send succeeds and every
\* key is recorded; their timestamps are later than all before and earlier
\* than all after, and stand as one
CycleBurst ==
  /\ pc = "cycle"
  /\ todo # <<>>
  /\ Head(todo) = eNew
  /\ seen' = [seen EXCEPT !.items =
                Append(@, [k |-> "filler", ts |-> clock, n |-> MAX_ITEMS - 1])]
  /\ clock' = clock + 1
  /\ new_count' = new_count + (MAX_ITEMS - 1)
  /\ todo' = Tail(todo)
  /\ UNCHANGED <<cfg, file, pc, fetchOk, entries, cyc, startFile, startFeed,
                 startOk, tried, failed, notified, replay, owed, saved, web>>
LongNext ==
  \/ LoadSeen
  \/ LongStartupFetch
  \/ LongCycleFetch
  \/ LongCycleEntry
  \/ CycleBurst
  \/ CycleDone
  \/ Sleep
LongSpec == LongInit /\ [][LongNext]_vars

\* passes_filters on its own: one call, on an entry with any combination of
\* the fields it reads, under any filter configuration
AllFilters ==
  [ONLY_TRUSTED : BOOLEAN, SKIP_REMAKES : BOOLEAN, MIN_SEEDERS : {0, 1, 5},
   TITLE_REGEX : BOOLEAN, REQUIRE_MULTI_SUBS : BOOLEAN,
   REQUIRE_MULTI_AUDIO : BOOLEAN, REQUIRE_ANY_MULTI : BOOLEAN]
FilterEntries ==
  {[eA EXCEPT !.trusted = t, !.remake = r, !.seeders = n,
              !.titleMatch = m, !.hasSubs = hs, !.hasAudio = ha] :
     t \in {"Yes", "No", ""}, r \in {"Yes", "No", ""},
     n \in {"", "0", "1", "4", "5", "x"},
     m \in BOOLEAN, hs \in BOOLEAN, ha \in BOOLEAN}
FilterInit ==
  /\ cfg \in {[BACKFILL_N |-> 0, CLEAR_SEEN |-> FALSE, filters |-> f] :
               f \in AllFilters}
  /\ entries \in {<<e>> : e \in FilterEntries}
  /\ pc = "filter"
  /\ file = NoFile /\ seen = EmptyDict /\ clock = 3
  /\ fetchOk = TRUE /\ todo = <<>> /\ new_count = 0 /\ cyc = 0
  /\ startFile = NoFile /\ startFeed = <<>> /\ startOk = FALSE
  /\ tried = <<>> /\ failed = {}
  /\ notified = [e \in Universe |-> 0]
  /\ replay = FALSE /\ owed = {} /\ saved = FALSE
  /\ web = NoSecret
\* passes_filters(e): it raises, or returns True or False
FilterApply ==
  /\ pc = "filter"
  /\ pc' = IF FiltersRaise(cfg.filters, entries[1]) THEN "raised"
           ELSE IF passes_filters(cfg.filters, entries[1]) THEN "accepted"
           ELSE "rejected"
  /\ UNCHANGED <<cfg, file, seen, clock, fetchOk, entries, todo, new_count,
                 cyc, startFile, startFeed, startOk, tried, failed, notified,
                 replay, owed, saved, web>>
FilterSpec == FilterInit /\ [][FilterApply]_vars

\* ---------------------------------------------------------------- claims
IsDict == seen.kind = "dict"
\* the filters accept e (and their evaluation does not raise)
Accepts(e) == ~FiltersRaise(cfg.filters, e) /\ passes_filters(cfg.filters, e)
\* the loop body raises on e in the current store
RaisesOn(e) ==
  key_for(e) # "" /\ ~Has(seen, key_for(e)) /\ FiltersRaise(cfg.filters, e)
\* the messages that reached the channel in this cycle, in order
Sent == SelectSeq(tried, LAMBDA e : e \notin failed)
Chronological(es) ==
  \A i, j \in 1..Len(es) : i < j => PubTime(es[i]) < PubTime(es[j])
NewestFirst(es) ==
  \A i, j \in 1..Len(es) : i < j => PubTime(es[i]) > PubTime(es[j])
DistinctTimes(es) ==
  \A i, j \in 1..Len(es) : i # j => PubTime(es[i]) # PubTime(es[j])
RECURSIVE SumNotified(_)
SumNotified(S) ==
  IF S = {} THEN 0
  ELSE LET e == CHOOSE x \in S : TRUE IN notified[e] + SumNotified(S \ {e})

C2_ChronologicalAnyListing ==
  (cyc >= 1 /\ DistinctTimes(entries)) => Chronological(Sent)

\* C3 as stated: a failed send leaves the key out of the store, and at the
\* end of every later cycle that fetched the entry, with the filters still
\* accepting it, a send for it has been attempted again.
C3_FailedDispatchRetried ==
  (IsDict /\ cyc >= 1) =>
    /\ \A e \in failed : ~Has(seen, key_for(e))
    /\ pc = "sleep" =>
         \A e \in owed \cap Range(entries) : Accepts(e) => e \in Range(tried)

\* C4: no message is ever sent for an entry without an infohash.
C4_NoInfohashNeverSent ==
  \A e \in Universe :
    e.infohash = "" => notified[e] = 0 /\ e \notin Range(tried)

\* a cycle has passed eC, which has no infohash, through notify
C4_Witness ==
  /\ pc = "cycle" /\ IsDict /\ new_count >= 1
  /\ eC \notin Range(startFeed)
  /\ Has(seen, key_for(eC))

\* C5 as stated: with BACKFILL_N = 0 the startup sends nothing, and up to
\* the end of the first cycle nothing is sent for an entry that was in the
\* feed when the process started.
C5_SilentBaseline ==
  (cfg.BACKFILL_N = 0 /\ load_seen(startFile).kind = "dict" /\ cyc <= 1) =>
    \A e \in Range(startFeed) : notified[e] = 0

\* the entries with the n latest publish times
MostRecent(es, n) ==
  {e \in Range(es) :
     Cardinality({x \in Range(es) : PubTime(x) > PubTime(e)}) < n}

\* C6 as stated: for a feed listed newest first, the entries the backfill
\* runs through the pipeline are the BACKFILL_N most recently published.
C6_BackfillMostRecent ==
  [][(pc = "init" /\ pc' = "backfill" /\ fetchOk' /\ NewestFirst(entries'))
       => Range(todo') = MostRecent(entries', cfg.BACKFILL_N)]_vars

\* C7 as stated: with BACKFILL_N > 0 and a store that starts empty, at most
\* BACKFILL_N messages are sent for entries that were in the feed at startup
\* (here: when the startup fetch got the feed).
C7_BackfillBounded ==
  (cfg.BACKFILL_N > 0 /\ load_seen(startFile) = EmptyDict /\ startOk) =>
    SumNotified(Range(startFeed)) <= cfg.BACKFILL_N

LoopPcs == {"loop", "cycle", "sleep"}

\* C8: no step takes poll_loop out of its loop, every cycle reaches the
\* sleep, and every sleep is followed by another cycle.
C8_LoopNeverEnds ==
  /\ [][(pc \in LoopPcs) => (pc' \in LoopPcs)]_vars
  /\ (pc = "cycle") ~> (pc = "sleep")
  /\ (pc = "sleep") ~> (pc = "cycle")

\* the loaded state is a scalar, on which every cycle raises, and the loop
\* is in its second cycle
C8_Witness == seen.kind = "scalar" /\ pc = "cycle" /\ cyc = 2

\* C9 as stated: whatever happened to the other entries, at the end of a
\* cycle every fetched entry that the filters accept is in the store, unless
\* its own send failed.
C9_PerEntryIsolation ==
  (IsDict /\ cyc >= 1 /\ pc = "sleep") =>
    \A e \in Range(entries) :
      Accepts(e) => Has(seen, key_for(e)) \/ e \in failed

\* C10 as stated: at the end of the startup reconciliation and of every
\* cycle, the store and the state file hold at most PruneCeiling keys.
C10_StoreBounded ==
  (IsDict /\ pc \in {"loop", "sleep"}) =>
    /\ Size(seen) <= PruneCeiling
    /\ file.kind = "dict" => Size(file) <= PruneCeiling

\* fetch_new has run through the fetched entries and is at line 201
AtPrune == pc = "cycle" /\ todo = <<>> /\ IsDict
\* the number of keys of s with a timestamp later than t
CountNewer(s, t) == SumN(SelectSeq(s.items, LAMBDA b : b.ts > t))
\* the earliest timestamp in s
MinTs(s) ==
  CHOOSE t \in {s.items[i].ts : i \in 1..Len(s.items)} :
    \A i \in 1..Len(s.items) : t <= s.items[i].ts
\* every key of t is a key of s, with the timestamp it has in s
SubStore(t, s) ==
  \A i \in 1..Len(t.items) : \E j \in 1..Len(s.items) :
    /\ t.items[i].k = s.items[j].k
    /\ t.items[i].ts = s.items[j].ts
    /\ t.items[i].n <= s.items[j].n

OneNewAtCeiling ==
  /\ AtPrune /\ Size(seen) = PruneCeiling + 1
  /\ new_count = 1 /\ Len(tried) = 1 /\ failed = {}

C13_PersistedAfterNotification ==
  (IsDict /\ cyc >= 1 /\ pc = "sleep" /\ Sent # <<>>) => saved

\* C14 as stated: the end of a cycle that recorded no key leaves the store
\* and the state file as they are and does not call save_seen.
C14_NoRedundantPrunePersist ==
  [][(pc = "cycle" /\ pc' = "sleep" /\ IsDict /\ new_count = 0) =>
       (seen' = seen /\ file' = file /\ ~saved')]_vars

\* C16 as stated: with a state file that does not hold an object the process
\* starts from the empty store, records every entry it sends and sends none
\* twice.
C16_StateFileTolerance ==
  (startFile.kind # "dict" /\ pc \notin {"start", "crashed"}) =>
    /\ IsDict
    /\ pc = "init" => seen = EmptyDict
    /\ \A e \in Universe : notified[e] <= 1
    /\ \A e \in Range(Sent) : Has(seen, key_for(e))

\* C18 as stated: the count of new items equals the number of messages sent
\* since the last fetch, and of the entries that were not in the store at
\* startup only those with a sent message have their key in the store
\* (BACKFILL_N > 0: no baseline).
C18_RecordOnlyAfterSend ==
  IsDict =>
    /\ new_count = Len(Sent)
    /\ cfg.BACKFILL_N > 0 =>
         \A e \in Universe :
           (Has(seen, key_for(e)) /\ ~Has(load_seen(startFile), key_for(e)))
             => notified[e] >= 1

\* the decision C15 states for entry e under the filters c
FilterDecision(c, e) ==
  /\ c.ONLY_TRUSTED => e.trusted = "Yes"
  /\ c.SKIP_REMAKES => e.remake # "Yes"
  /\ SeedersInt(e) >= c.MIN_SEEDERS
  /\ c.TITLE_REGEX => e.titleMatch
  /\ c.REQUIRE_MULTI_SUBS => e.hasSubs
  /\ c.REQUIRE_MULTI_AUDIO => e.hasAudio
  /\ c.REQUIRE_ANY_MULTI => (e.hasSubs \/ e.hasAudio)
FilterDone == pc \in {"accepted", "rejected", "raised"}

\* C15 as stated: passes_filters accepts exactly the entries that meet every
\* configured condition, and with no filter configured it accepts every
\* entry.
C15_FilterDecision ==
  FilterDone =>
    /\ (pc = "accepted") <=> FilterDecision(cfg.filters, entries[1])
    /\ cfg.filters = NoFilters => pc = "accepted"

\* C15 on the entries whose seeders text is absent or a number: there
\* passes_filters returns, and it decides as C15 states.
C15_FilterDecisionNumeric ==
  (FilterDone /\ SeedersInt(entries[1]) >= 0) =>
    /\ pc # "raised"
    /\ (pc = "accepted") <=> FilterDecision(cfg.filters, entries[1])
    /\ cfg.filters = NoFilters => pc = "accepted"

\* C17: a step that changes the web server's state (a request served) leaves
\* all of the poll loop's state as it is, the store, the state file and the
\* notifications among it, and a step of the poll loop leaves the web
\* server's state as it is.
C17_SingleWriter ==
  [][/\ (web' # web) => UNCHANGED pollVars
     /\ (pollVars' # pollVars) => web' = web]_vars

\* a test message was sent, and the poll loop has ended its second cycle
\* with eA notified and recorded
C17_Witness ==
  /\ web.resp = "200 sent"
  /\ pc = "sleep" /\ cyc = 2
  /\ IsDict /\ notified[eA] = 1 /\ Has(seen, key_for(eA))

\* no id, guid or link, no infohash, no title and no publish time
Keyless(e) ==
  e.id = "" /\ e.infohash = "" /\ e.title = "" /\ e.published = ""

\* C19 as stated: a fetched entry from which none of the key's fields can be
\* read has no key, no send is attempted for it and the store holds no key
\* for it.
C19_KeylessSkipped ==
  \A e \in Range(entries) :
    Keyless(e) =>
      /\ key_for(e) = ""
      /\ e \notin Range(tried)
      /\ ~Has(seen, key_for(e))

\* C20 as stated: no entry's message reaches the channel twice in one run.
C20_AtMostOnce == \A e \in Universe : notified[e] <= 1
====
